---- MODULE Spec2Model ----
(***************************************************************************)
(* The Founder Flow pipeline orchestrator (backend/main_flow.py) over the  *)
(* persistence layer (backend/tools/supabase.py).                          *)
(*                                                                         *)
(* One orchestrator worker runs run_founder_flow and send_emails_for_job   *)
(* invocations one after the other.  The tables "jobs" and "leads" are the *)
(* persisted state.  Every store call of supabase.py catches its own       *)
(* exceptions and returns a sentinel (None / False / []), so each call has *)
(* an outcome flag: TRUE when the store served it, FALSE when it raised    *)
(* inside the wrapper.  The collaborators (parser, planner, executor, lead *)
(* collector, sender, summariser) are agent tasks: they return a value     *)
(* drawn from a small set, or raise.                                       *)
(***************************************************************************)
EXTENDS Integers, Sequences, FiniteSets, TLC

\* ---------------------------------------------------------------- bounds
MaxUrls == 2
MaxSends == 2

\* ------------------------------------------------------------- constants
\* Python's None, for optional strings and for ids.
None == "None"
NoId == 0

CompanyNames == {"acme", "globex"}
CompanyUrls == {"u1"}
Emails == {"e1"}

\* What one candidate URL contains: 'workatastartup.com/companies/',
\* 'workatastartup.com/jobs/', or neither.
UrlKinds == {"company", "job", "other"}

JobStatuses ==
  {"Pending", "Parsing", "GeneratingPlan", "Searching", "NoResults",
   "CollectingLeads", "NoLeads", "Complete", "SendingEmails", "NoEmailsToSend",
   "EmailsComplete", "EmailFailed", "Failed"}

LeadStatuses == {"Pending", "ReadyToSend", "EmailNotFound", "EmailSent", "EmailFailed"}

\* A Lead as collect_lead_task returns it (the fields the orchestrator and
\* save_lead read): company_name, company_url and contact_email, each optional.
Leads ==
  [company_name : CompanyNames \cup {None},
   company_url : CompanyUrls \cup {None},
   contact_email : Emails \cup {None}]

\* The leads the collector is made to return here: a company with and without
\* a resolved email, a second company behind the same company_url, and a
\* record with neither a company name nor a company URL.
CollectedLeads ==
  {l \in Leads :
     \/ l.company_name = "acme" /\ l.company_url = "u1"
     \/ l.company_name = "globex" /\ l.company_url = "u1"
     \/ l.company_name = None /\ l.company_url = None /\ l.contact_email = None}

VARIABLES
  jobs,         \* table "jobs": row id -> [status]
  leadsTbl,     \* table "leads": row id -> [company_name, company_url, job_id, status, contact_email]
  pc,           \* where the orchestrator worker stands
  job_id,       \* run_founder_flow / send_emails_for_job: job_id (NoId: None)
  result,       \* the JobRunResult, or the dict send_emails_for_job returns
  job_urls,     \* run_founder_flow: job_urls, a sequence of URL kinds
  i,            \* run_founder_flow: position in prioritized_urls
  leads,        \* run_founder_flow: len(leads), the leads collected so far
  leads_data,   \* send_emails_for_job: leads_data, the fetched row ids
  emails_sent,  \* send_emails_for_job: emails_sent
  issued,       \* history: the job statuses this invocation wrote (insert, update_job_status)
  calls,        \* history: the URLs (positions in job_urls) handed to collect_lead_task
  sendCalls,    \* history: the lead rows handed to send_email_task in this invocation
  raised,       \* history: the stages of this invocation in which an exception was raised
  started,      \* run_founder_flow was invoked
  sends         \* send_emails_for_job invocations so far

\* The dispatcher (tools/email.py process_scheduled_emails, email_scheduler.py).
VARIABLES
  emails,       \* table "emails": row id -> [status, scheduled_at, retries, next_retry, sent_at]
  now,          \* the clock, in hours
  workers,      \* the dispatcher workers that run
  dpc,          \* per worker: "idle" between polls, "loop" inside the for loop
  batch,        \* per worker: response.data, the rows as fetched ([id, retries])
  pos,          \* per worker: position in response.data
  polls,        \* polls started so far
  delivered,    \* history: per row, how often the provider accepted its message
  failures,     \* history: per row, how often the provider refused its message
  touched       \* history: per worker, the rows the current poll sent or updated

flowVars ==
  <<jobs, leadsTbl, pc, job_id, result, job_urls, i, leads, leads_data, emails_sent,
    issued, calls, sendCalls, raised, started, sends>>

dispatchVars ==
  <<emails, now, workers, dpc, batch, pos, polls, delivered, failures, touched>>

\* get_next_sf_business_hour (tools/email.py).
VARIABLES
  sch_now,      \* datetime.now(pytz.utc), in minutes
  sch_out,      \* the scheduled time returned, in UTC minutes (NoTime: not called yet)
  sch_before,   \* history: what random.randint(0, 120) gives in this call
  sch_during    \* history: what random.randint(30, 60) gives in this call

scheduleVars == <<sch_now, sch_out, sch_before, sch_during>>

\* execute_google_search (tools/search.py).
VARIABLES
  responses,    \* per dork, what the provider answers: a list of links, or an error
  limit,        \* the argument limit
  dork_k,       \* the index of the next dork of the loop
  found_urls,   \* the local job_urls
  queried,      \* history: the dorks for which the provider was called
  search_ret    \* the returned list (<<"running">> until the function returns)

searchVars == <<responses, limit, dork_k, found_urls, queried, search_ret>>

\* Two workers inside save_lead (tools/supabase.py) on the same table.
VARIABLES
  sl_pc,        \* per worker: "check", "insert", "done"
  sl_lead,      \* per worker: the lead to save
  sl_exists,    \* per worker: what check_lead_exists returned
  sl_served     \* history: per worker, whether the existence query was served

saveVars == <<sl_pc, sl_lead, sl_exists, sl_served>>

\* find_contact_linkedin (tools/scraping.py).
VARIABLES
  fc_founders,  \* company_details.founders, the list of candidates
  fc_ret        \* the value returned ("running" until the function returns, "idle": no call)

contactVars == <<fc_founders, fc_ret>>

\* The variables each component never touches.
nonFlowVars == <<dispatchVars, scheduleVars, searchVars, saveVars, contactVars>>

nonDispatchVars == <<flowVars, scheduleVars, searchVars, saveVars, contactVars>>

nonScheduleVars == <<flowVars, dispatchVars, searchVars, saveVars, contactVars>>

nonSearchVars == <<flowVars, dispatchVars, scheduleVars, saveVars, contactVars>>

nonContactVars == <<flowVars, dispatchVars, scheduleVars, searchVars, saveVars>>

vars == <<flowVars, dispatchVars, scheduleVars, searchVars, saveVars, contactVars>>

\* Python's None, for optional times (null in the table).
NoTime == -1

\* get_next_sf_business_hour is not called.
ScheduleIdle ==
  /\ sch_now = 0
  /\ sch_out = NoTime
  /\ sch_before = NoTime
  /\ sch_during = NoTime

\* execute_google_search is not called.
SearchIdle ==
  /\ responses = <<>>
  /\ limit = 0
  /\ dork_k = 1
  /\ found_urls = <<>>
  /\ queried = <<>>
  /\ search_ret = <<>>

\* find_contact_linkedin is not called.
ContactIdle ==
  /\ fc_founders = <<>>
  /\ fc_ret = "idle"

\* No concurrent save_lead workers run.
SaveIdle ==
  /\ sl_pc = <<>>
  /\ sl_lead = <<>>
  /\ sl_exists = <<>>
  /\ sl_served = <<>>

\* No dispatcher runs: the state of its variables under the other specifications.
DispatchIdle ==
  /\ emails = <<>>
  /\ now = 0
  /\ workers = {}
  /\ dpc = <<>>
  /\ batch = <<>>
  /\ pos = <<>>
  /\ polls = 0
  /\ delivered = <<>>
  /\ failures = <<>>
  /\ touched = <<>>

\* ------------------------------------------------------------ sequences
RECURSIVE SeqsUpTo(_, _)
SeqsUpTo(S, n) ==
  IF n = 0 THEN {<<>>}
  ELSE LET shorter == SeqsUpTo(S, n - 1)
       IN shorter \cup {Append(s, x) : s \in {t \in shorter : Len(t) = n - 1}, x \in S}

Range(s) == {s[k] : k \in DOMAIN s}

Last(s) == s[Len(s)]

\* The positions 1..n in order.
Positions(n) == [k \in 1..n |-> k]

\* ------------------------------------------------- supabase.py: jobs
\* log_job_start: the row the insert adds (status "Pending", the Job default);
\* nothing when the insert raises or returns no data.
LogJobStartTbl(tbl, ok) ==
  IF ok THEN Append(tbl, [status |-> "Pending"]) ELSE tbl

\* log_job_start: the id returned, None when the insert failed.
LogJobStartId(tbl, ok) ==
  IF ok THEN Len(tbl) + 1 ELSE NoId

\* update_job_status: update(...).eq("id", job_id); a raised exception is caught
\* and leaves the row as it was.  An id matching no row updates nothing.
update_job_status(tbl, id, status, ok) ==
  IF ok /\ id \in DOMAIN tbl THEN [tbl EXCEPT ![id].status = status] ELSE tbl

\* ------------------------------------------------ supabase.py: leads
\* check_lead_exists: by company_name when given, else by company_url when
\* given, else False; False when the query raises.
check_lead_exists(tbl, company_name, company_url, ok) ==
  IF ~ok THEN FALSE
  ELSE IF company_name # None
       THEN \E r \in DOMAIN tbl : tbl[r].company_name = company_name
  ELSE IF company_url # None
       THEN \E r \in DOMAIN tbl : tbl[r].company_url = company_url
  ELSE FALSE

\* save_lead: whether the existence check is made at all.
ChecksExistence(lead) == lead.company_name # None \/ lead.company_url # None

\* save_lead: whether the lead is skipped as a duplicate.
IsDuplicate(tbl, lead, chkOk) ==
  /\ ChecksExistence(lead)
  /\ check_lead_exists(tbl, lead.company_name, lead.company_url, chkOk)

\* save_lead: the row inserted, lead.dict() plus job_id (status is the Lead
\* default "Pending", contact_email as collected).
LeadRow(lead, id) ==
  [company_name |-> lead.company_name, company_url |-> lead.company_url,
   job_id |-> id, status |-> "Pending", contact_email |-> lead.contact_email]

\* save_lead: the table afterwards.
SaveLeadTbl(tbl, lead, id, chkOk, insOk) ==
  IF IsDuplicate(tbl, lead, chkOk) \/ ~insOk THEN tbl
  ELSE Append(tbl, LeadRow(lead, id))

\* save_lead: the id returned, None for a duplicate or a failed insert.
SaveLeadId(tbl, lead, id, chkOk, insOk) ==
  IF IsDuplicate(tbl, lead, chkOk) \/ ~insOk THEN NoId
  ELSE Len(tbl) + 1

\* update_lead_status: status, and contact_email when one is passed.
update_lead_status(tbl, lead_id, status, email, ok) ==
  IF ok /\ lead_id \in DOMAIN tbl
  THEN [tbl EXCEPT ![lead_id].status = status,
                   ![lead_id].contact_email =
                      IF email # None THEN email ELSE tbl[lead_id].contact_email]
  ELSE tbl

\* The query without its status filter.
get_leads_to_email_any_status(tbl, id, ok) ==
  IF ~ok THEN <<>>
  ELSE SelectSeq(Positions(Len(tbl)),
                 LAMBDA r : tbl[r].job_id = id /\ tbl[r].contact_email # None)

\* get_leads_to_email: the job's rows with a contact_email and status
\* ReadyToSend; [] when the query raises.
get_leads_to_email(tbl, id, ok) ==
  IF ~ok THEN <<>>
  ELSE SelectSeq(Positions(Len(tbl)),
                 LAMBDA r : /\ tbl[r].job_id = id
                            /\ tbl[r].contact_email # None
                            /\ tbl[r].status = "ReadyToSend")

\* ------------------------------------------------ main_flow.py: helpers
IsCompanyUrl(kind) == kind = "company"

IsJobListingUrl(kind) == kind = "job"

\* Job listings put first.
PrioritizedUrlsJobsFirst(urls) ==
  SelectSeq(Positions(Len(urls)), LAMBDA k : IsJobListingUrl(urls[k]))
    \o SelectSeq(Positions(Len(urls)), LAMBDA k : IsCompanyUrl(urls[k]))

\* prioritized_urls = company_urls + job_listing_urls, as positions in job_urls.
PrioritizedUrls(urls) ==
  SelectSeq(Positions(Len(urls)), LAMBDA k : IsCompanyUrl(urls[k]))
    \o SelectSeq(Positions(Len(urls)), LAMBDA k : IsJobListingUrl(urls[k]))

\* The status a collected lead gets: ReadyToSend with an email, else EmailNotFound.
LeadStatusFor(lead) ==
  IF lead.contact_email # None THEN "ReadyToSend" ELSE "EmailNotFound"

\* One update_job_status call of the running invocation, recorded in `issued`.
WriteStatus(status, ok) ==
  /\ jobs' = update_job_status(jobs, job_id, status, ok)
  /\ issued' = Append(issued, status)

\* The except block of run_founder_flow: persist Failed and return a fresh
\* JobRunResult with status Failed and the error text.
FailRun(stage, ok) ==
  /\ WriteStatus("Failed", ok)
  /\ result' = [job_id |-> job_id, status |-> "Failed", error |-> "exception"]
  /\ raised' = raised \cup {stage}
  /\ pc' = "run_done"

\* ------------------------------------------------------------------ Init
\* What an earlier JobRun left in the store: one URL, the collector returned
\* acme with an email, the run ended Complete.
PriorJobs == <<[status |-> "Complete"]>>

PriorLeads ==
  <<[company_name |-> "acme", company_url |-> "u1", job_id |-> 1,
     status |-> "ReadyToSend", contact_email |-> "e1"]>>

\* The store is empty, or holds what the earlier JobRun left.
Init ==
  /\ \/ jobs = <<>> /\ leadsTbl = <<>>
     \/ jobs = PriorJobs /\ leadsTbl = PriorLeads
  /\ pc = "idle"
  /\ job_id = NoId
  /\ result = [job_id |-> NoId, status |-> "Pending", error |-> None]
  /\ job_urls = <<>>
  /\ i = 1
  /\ leads = 0
  /\ leads_data = <<>>
  /\ emails_sent = 0
  /\ issued = <<>>
  /\ calls = <<>>
  /\ sendCalls = <<>>
  /\ raised = {}
  /\ started = FALSE
  /\ sends = 0
  /\ DispatchIdle
  /\ ScheduleIdle
  /\ SearchIdle
  /\ SaveIdle
  /\ ContactIdle

\* The locals and the per-invocation history at the entry of an invocation.
EnterInvocation ==
  /\ job_urls' = <<>>
  /\ i' = 1
  /\ leads' = 0
  /\ leads_data' = <<>>
  /\ emails_sent' = 0
  /\ calls' = <<>>
  /\ sendCalls' = <<>>

\* The worker is free: nothing was started yet, or the last invocation returned.
Free == pc \in {"idle", "run_done", "send_done"}

\* ------------------------------------------------- run_founder_flow
\* Lines 62-68: Job(raw_query=...), log_job_start, update_job_status("Parsing").
\* log_job_start swallows a failed insert and returns None; the flow goes on.
RunStart ==
  /\ Free
  /\ ~started
  /\ \E insOk, wOk \in BOOLEAN :
       /\ LET id == LogJobStartId(jobs, insOk)
          IN /\ jobs' = update_job_status(LogJobStartTbl(jobs, insOk), id, "Parsing", wOk)
             /\ job_id' = id
             /\ result' = [job_id |-> id, status |-> "Parsing", error |-> None]
             /\ raised' = IF insOk THEN {} ELSE {"job_insert"}
       /\ issued' = <<"Pending", "Parsing">>
  /\ started' = TRUE
  /\ pc' = "parse"
  /\ EnterInvocation
  /\ UNCHANGED <<leadsTbl, sends>>
  /\ UNCHANGED nonFlowVars

\* Line 62 raises (Job rejects the query): job_id is not bound, so the except
\* block writes nothing (line 167) and returns a Failed result without a job id.
RunJobRaises ==
  /\ Free
  /\ ~started
  /\ started' = TRUE
  /\ job_id' = NoId
  /\ result' = [job_id |-> NoId, status |-> "Failed", error |-> "exception"]
  /\ raised' = {"job"}
  /\ issued' = <<>>
  /\ pc' = "run_done"
  /\ EnterInvocation
  /\ UNCHANGED <<jobs, leadsTbl, sends>>
  /\ UNCHANGED nonFlowVars

\* A stage that moves on without writing its status.
AdvanceWithoutWrite(status, next, ok) ==
  /\ result' = [result EXCEPT !.status = status]
  /\ pc' = next
  /\ UNCHANGED <<jobs, issued, raised>>

\* A stage whose collaborator returned: persist the next status, move on.
Advance(status, next, ok) ==
  /\ WriteStatus(status, ok)
  /\ result' = [result EXCEPT !.status = status]
  /\ pc' = next
  /\ UNCHANGED raised

\* Lines 72-78: parse_user_input_task, then status GeneratingPlan.
RunParse ==
  /\ pc = "parse"
  /\ \E ok \in BOOLEAN : Advance("GeneratingPlan", "plan", ok) \/ FailRun("parser", ok)
  /\ UNCHANGED <<leadsTbl, job_id, job_urls, i, leads, leads_data, emails_sent,
                 calls, sendCalls, started, sends>>
  /\ UNCHANGED nonFlowVars

\* Lines 82-87: generate_search_plan_task, then status Searching.
RunPlan ==
  /\ pc = "plan"
  /\ \E ok \in BOOLEAN : Advance("Searching", "search", ok) \/ FailRun("planner", ok)
  /\ UNCHANGED <<leadsTbl, job_id, job_urls, i, leads, leads_data, emails_sent,
                 calls, sendCalls, started, sends>>
  /\ UNCHANGED nonFlowVars

\* A check that never sees an empty result.
NoJobUrlsNever(urls) == FALSE

\* Line 94: `if not job_urls`.
NoJobUrls(urls) == urls = <<>>

\* Lines 91-102: execute_search_task; no URL ends the run NoResults, else
\* status CollectingLeads and the loop over prioritized_urls starts.
RunSearch ==
  /\ pc = "search"
  /\ \/ \E urls \in SeqsUpTo(UrlKinds, MaxUrls), ok \in BOOLEAN :
          /\ job_urls' = urls
          /\ IF NoJobUrls(urls)
             THEN /\ WriteStatus("NoResults", ok)
                  /\ result' = [result EXCEPT !.status = "NoResults",
                                              !.error = "No job URLs found"]
                  /\ pc' = "run_done"
             ELSE /\ WriteStatus("CollectingLeads", ok)
                  /\ result' = [result EXCEPT !.status = "CollectingLeads"]
                  /\ pc' = "collect"
          /\ UNCHANGED raised
     \/ /\ \E ok \in BOOLEAN : FailRun("executor", ok)
        /\ UNCHANGED job_urls
  /\ UNCHANGED <<leadsTbl, job_id, i, leads, leads_data, emails_sent,
                 calls, sendCalls, started, sends>>
  /\ UNCHANGED nonFlowVars

\* Lines 116-133, one URL: collect_lead_task returned a lead; save_lead,
\* update_lead_status, leads.append(lead).
CollectLead ==
  /\ pc = "collect"
  /\ i <= Len(PrioritizedUrls(job_urls))
  /\ \E lead \in CollectedLeads, chkOk, insOk, updOk \in BOOLEAN :
       /\ ChecksExistence(lead) \/ chkOk
       /\ LET lead_id == SaveLeadId(leadsTbl, lead, job_id, chkOk, insOk)
              saved == SaveLeadTbl(leadsTbl, lead, job_id, chkOk, insOk)
          IN leadsTbl' = update_lead_status(saved, lead_id, LeadStatusFor(lead),
                                            lead.contact_email, updOk)
       /\ leads' = leads + 1
  /\ calls' = Append(calls, PrioritizedUrls(job_urls)[i])
  /\ i' = i + 1
  /\ UNCHANGED <<jobs, pc, job_id, result, job_urls, leads_data, emails_sent, issued,
                 sendCalls, raised, started, sends>>
  /\ UNCHANGED nonFlowVars

\* A loop without its own try/except: the exception reaches the outer except block.
CollectRaisesPropagates ==
  /\ pc = "collect"
  /\ i <= Len(PrioritizedUrls(job_urls))
  /\ calls' = Append(calls, PrioritizedUrls(job_urls)[i])
  /\ \E ok \in BOOLEAN : FailRun("collector", ok)
  /\ UNCHANGED <<leadsTbl, job_id, job_urls, i, leads, leads_data, emails_sent,
                 sendCalls, started, sends>>
  /\ UNCHANGED nonFlowVars

\* Lines 137-139, one URL: collect_lead_task raised; logged, next URL.
CollectRaises ==
  /\ pc = "collect"
  /\ i <= Len(PrioritizedUrls(job_urls))
  /\ calls' = Append(calls, PrioritizedUrls(job_urls)[i])
  /\ i' = i + 1
  /\ UNCHANGED <<jobs, leadsTbl, pc, job_id, result, job_urls, leads, leads_data,
                 emails_sent, issued, sendCalls, raised, started, sends>>
  /\ UNCHANGED nonFlowVars

\* Lines 142-155: after the loop, NoLeads when `leads` is empty, else Complete.
RunFinishCollect ==
  /\ pc = "collect"
  /\ i > Len(PrioritizedUrls(job_urls))
  /\ \E ok \in BOOLEAN :
       /\ IF leads = 0
          THEN /\ WriteStatus("NoLeads", ok)
               /\ result' = [result EXCEPT !.status = "NoLeads",
                                           !.error = "No leads could be collected"]
               /\ pc' = "run_done"
          ELSE /\ WriteStatus("Complete", ok)
               /\ result' = [result EXCEPT !.status = "Complete"]
               /\ pc' = "summarise"
  /\ UNCHANGED <<leadsTbl, job_id, job_urls, i, leads, leads_data, emails_sent,
                 calls, sendCalls, raised, started, sends>>
  /\ UNCHANGED nonFlowVars

\* Lines 158-161: process_job_results_task, after Complete was persisted; when
\* it raises the except block persists Failed.
RunSummarise ==
  /\ pc = "summarise"
  /\ \/ pc' = "run_done" /\ UNCHANGED <<jobs, result, issued, raised>>
     \/ \E ok \in BOOLEAN : FailRun("results", ok)
  /\ UNCHANGED <<leadsTbl, job_id, job_urls, i, leads, leads_data, emails_sent,
                 calls, sendCalls, started, sends>>
  /\ UNCHANGED nonFlowVars

\* ---------------------------------------------- send_emails_for_job
\* Line 190: send_emails_for_job(job_id) for any job of the store; status
\* SendingEmails first.
SendStart ==
  /\ Free
  /\ sends < MaxSends
  /\ \E id \in DOMAIN jobs, ok \in BOOLEAN :
       /\ job_id' = id
       /\ jobs' = update_job_status(jobs, id, "SendingEmails", ok)
       /\ result' = [job_id |-> id, status |-> "Pending", error |-> None]
  /\ issued' = <<"SendingEmails">>
  /\ sends' = sends + 1
  /\ raised' = {}
  /\ pc' = "fetch"
  /\ EnterInvocation
  /\ UNCHANGED <<leadsTbl, started>>
  /\ UNCHANGED nonFlowVars

\* Lines 194-203: get_leads_to_email; with no lead to email, status
\* NoEmailsToSend and the NoEmailsToSend dict, else the loop starts.
SendFetch ==
  /\ pc = "fetch"
  /\ \E getOk \in BOOLEAN :
       LET data == get_leads_to_email(leadsTbl, job_id, getOk)
       IN /\ leads_data' = data
          /\ IF data = <<>>
             THEN /\ \E ok \in BOOLEAN : WriteStatus("NoEmailsToSend", ok)
                  /\ result' = [result EXCEPT !.status = "NoEmailsToSend"]
                  /\ pc' = "send_done"
             ELSE /\ pc' = "sending"
                  /\ UNCHANGED <<jobs, issued, result>>
  /\ UNCHANGED <<leadsTbl, job_id, job_urls, i, leads, emails_sent, calls, sendCalls,
                 raised, started, sends>>
  /\ UNCHANGED nonFlowVars

\* What send_email_task did for one lead: a result with status "Sent" or an
\* "id", a result without, or an exception.
SendOutcomes == {"sent", "failed", "raised"}

\* A loop in which a failed send ends the batch: the job is written EmailFailed
\* and the leads after it are not attempted.
SendOneAbortsBatch ==
  /\ pc = "sending"
  /\ i <= Len(leads_data)
  /\ \E outcome \in SendOutcomes, updOk \in BOOLEAN :
       /\ leadsTbl' = update_lead_status(leadsTbl, leads_data[i],
                         IF outcome = "sent" THEN "EmailSent" ELSE "EmailFailed",
                         None, updOk)
       /\ emails_sent' = IF outcome = "sent" THEN emails_sent + 1 ELSE emails_sent
       /\ IF outcome = "sent"
          THEN UNCHANGED <<jobs, pc, issued, result>>
          ELSE /\ WriteStatus("EmailFailed", updOk)
               /\ result' = [result EXCEPT !.status = "Failed"]
               /\ pc' = "send_done"
  /\ sendCalls' = Append(sendCalls, leads_data[i])
  /\ i' = i + 1
  /\ UNCHANGED <<job_id, job_urls, leads, leads_data, calls, raised, started, sends>>
  /\ UNCHANGED nonFlowVars

\* Lines 208-227, one lead: send_email_task, then the lead's status.
SendOne ==
  /\ pc = "sending"
  /\ i <= Len(leads_data)
  /\ \E outcome \in SendOutcomes, updOk \in BOOLEAN :
       /\ leadsTbl' = update_lead_status(leadsTbl, leads_data[i],
                         IF outcome = "sent" THEN "EmailSent" ELSE "EmailFailed",
                         None, updOk)
       /\ emails_sent' = IF outcome = "sent" THEN emails_sent + 1 ELSE emails_sent
  /\ sendCalls' = Append(sendCalls, leads_data[i])
  /\ i' = i + 1
  /\ UNCHANGED <<jobs, pc, job_id, result, job_urls, leads, leads_data, issued,
                 calls, raised, started, sends>>
  /\ UNCHANGED nonFlowVars

\* Lines 230-237: after the loop, status EmailsComplete and the dict with
\* status "Complete".
SendFinish ==
  /\ pc = "sending"
  /\ i > Len(leads_data)
  /\ \E ok \in BOOLEAN :
       /\ WriteStatus("EmailsComplete", ok)
  /\ result' = [result EXCEPT !.status = "Complete"]
  /\ pc' = "send_done"
  /\ UNCHANGED <<leadsTbl, job_id, job_urls, i, leads, leads_data, emails_sent,
                 calls, sendCalls, raised, started, sends>>
  /\ UNCHANGED nonFlowVars

\* ------------------------------------------------------------------ Spec
Next ==
  \/ RunStart
  \/ RunJobRaises
  \/ RunParse
  \/ RunPlan
  \/ RunSearch
  \/ CollectLead
  \/ CollectRaises
  \/ RunFinishCollect
  \/ RunSummarise
  \/ SendStart
  \/ SendFetch
  \/ SendOne
  \/ SendFinish

Spec == Init /\ [][Next]_vars

\* ------------------------------------------------------------ dispatcher
\* tools/email.py process_scheduled_emails, run by email_scheduler.py on a
\* fixed interval.  Time is counted in hours.
MaxEmails == 2
MaxTime == 3
MaxPolls == 3

Workers == {1, 2}

EmailStatuses == {"Scheduled", "Sent", "Failed"}

\* The rows other code leaves in the table: a scheduled email (send_email_yagmail
\* inserts status Scheduled with retries 0), an email sent at once and logged as
\* Sent, and a row inserted as Failed.
InitialEmails ==
  {[status |-> "Scheduled", scheduled_at |-> t, retries |-> 0, next_retry |-> NoTime,
    sent_at |-> NoTime] : t \in 0..2}
    \cup {[status |-> "Sent", scheduled_at |-> NoTime, retries |-> 0, next_retry |-> NoTime,
           sent_at |-> 0],
          [status |-> "Failed", scheduled_at |-> 0, retries |-> 0, next_retry |-> NoTime,
           sent_at |-> NoTime]}

\* The orchestrator does not run: the state of its variables under the other
\* specifications.
FlowIdle ==
  /\ jobs = <<>>
  /\ leadsTbl = <<>>
  /\ pc = "idle"
  /\ job_id = NoId
  /\ result = [job_id |-> NoId, status |-> "Pending", error |-> None]
  /\ job_urls = <<>>
  /\ i = 1
  /\ leads = 0
  /\ leads_data = <<>>
  /\ emails_sent = 0
  /\ issued = <<>>
  /\ calls = <<>>
  /\ sendCalls = <<>>
  /\ raised = {}
  /\ started = FALSE
  /\ sends = 0

\* The table and the idle workers, for the set of workers that run.
DispatchInit(ws) ==
  /\ emails \in {e \in SeqsUpTo(InitialEmails, MaxEmails) : Len(e) = MaxEmails}
  /\ now = 0
  /\ workers = ws
  /\ dpc = [w \in Workers |-> "idle"]
  /\ batch = [w \in Workers |-> <<>>]
  /\ pos = [w \in Workers |-> 1]
  /\ polls = 0
  /\ delivered = [r \in 1..MaxEmails |-> 0]
  /\ failures = [r \in 1..MaxEmails |-> 0]
  /\ touched = [w \in Workers |-> {}]

\* A query that leaves out the status filter.
DueEmailsAnyStatus(tbl, t) ==
  SelectSeq(Positions(Len(tbl)),
            LAMBDA r : tbl[r].scheduled_at # NoTime /\ tbl[r].scheduled_at <= t)

\* Lines 304-310: .eq("status", "Scheduled").lte("scheduled_at", now).
DueEmails(tbl, t) ==
  SelectSeq(Positions(Len(tbl)),
            LAMBDA r : /\ tbl[r].status = "Scheduled"
                       /\ tbl[r].scheduled_at # NoTime
                       /\ tbl[r].scheduled_at <= t)

\* response.data: each fetched row with the delivery_metrics it had when fetched.
Fetched(tbl, ids) == [k \in DOMAIN ids |-> [id |-> ids[k], retries |-> tbl[ids[k]].retries]]

RECURSIVE Pow2(_)
Pow2(n) == IF n = 0 THEN 1 ELSE 2 * Pow2(n - 1)

\* Lines 344-352: the update after a send; delivery_metrics is replaced by
\* {"sent_time": ...}, which drops retries and next_retry.
MarkSent(tbl, id, t) ==
  [tbl EXCEPT ![id].status = "Sent", ![id].sent_at = t,
              ![id].retries = 0, ![id].next_retry = NoTime]

\* A backoff computed with the count before the increment.
MarkFailedStaleCount(tbl, id, fetchedRetries, t) ==
  LET retries == fetchedRetries + 1
  IN [tbl EXCEPT ![id].status = "Failed",
                 ![id].retries = retries,
                 ![id].next_retry = IF retries < 3 THEN t + Pow2(fetchedRetries) ELSE NoTime]

\* Lines 362-382: retries = fetched retries + 1, next_retry = now + 2^retries
\* hours while retries < 3, status Failed.
MarkFailed(tbl, id, fetchedRetries, t) ==
  LET retries == fetchedRetries + 1
  IN [tbl EXCEPT ![id].status = "Failed",
                 ![id].retries = retries,
                 ![id].next_retry = IF retries < 3 THEN t + Pow2(retries) ELSE NoTime]

\* Lines 297-325: one poll starts.  The query raising, no due row, or no mail
\* client ends the poll at once; else the loop over response.data starts.
Poll(w) ==
  /\ w \in workers
  /\ dpc[w] = "idle"
  /\ polls < MaxPolls
  /\ polls' = polls + 1
  /\ touched' = [touched EXCEPT ![w] = {}]
  /\ \E ready \in BOOLEAN :
       LET ids == IF ready THEN DueEmails(emails, now) ELSE <<>>
       IN /\ batch' = [batch EXCEPT ![w] = Fetched(emails, ids)]
          /\ dpc' = [dpc EXCEPT ![w] = IF ids = <<>> THEN "idle" ELSE "loop"]
  /\ pos' = [pos EXCEPT ![w] = 1]
  /\ UNCHANGED <<emails, now, workers, delivered, failures>>
  /\ UNCHANGED nonDispatchVars

\* After the row at pos: the next row, or the end of the poll.
NextEmail(w) ==
  /\ pos' = [pos EXCEPT ![w] = pos[w] + 1]
  /\ dpc' = [dpc EXCEPT ![w] = IF pos[w] = Len(batch[w]) THEN "idle" ELSE "loop"]

\* Lines 325-382, one fetched row: yag.send, then the update to Sent; an
\* exception of either goes to the except block, which records the failure.
\* An exception of that update leaves the loop (outer except, line 384).
Attempt(w) ==
  /\ w \in workers
  /\ dpc[w] = "loop"
  /\ LET e == batch[w][pos[w]]
     IN \E sendOk, sentOk, failOk \in BOOLEAN :
          /\ delivered' = IF sendOk THEN [delivered EXCEPT ![e.id] = @ + 1] ELSE delivered
          /\ failures' = IF sendOk THEN failures ELSE [failures EXCEPT ![e.id] = @ + 1]
          /\ touched' = [touched EXCEPT ![w] = @ \cup {e.id}]
          /\ IF sendOk /\ sentOk
             THEN /\ emails' = MarkSent(emails, e.id, now)
                  /\ NextEmail(w)
             ELSE IF failOk
             THEN /\ emails' = MarkFailed(emails, e.id, e.retries, now)
                  /\ NextEmail(w)
             ELSE /\ emails' = emails
                  /\ dpc' = [dpc EXCEPT ![w] = "idle"]
                  /\ pos' = pos
  /\ UNCHANGED <<now, workers, batch, polls>>
  /\ UNCHANGED nonDispatchVars

\* An hour passes.
Tick ==
  /\ workers # {}
  /\ now < MaxTime
  /\ now' = now + 1
  /\ UNCHANGED <<emails, workers, dpc, batch, pos, polls, delivered, failures, touched>>
  /\ UNCHANGED nonDispatchVars

NextDispatch ==
  \/ \E w \in Workers : Poll(w)
  \/ \E w \in Workers : Attempt(w)
  \/ Tick

\* One dispatcher worker, the deployment email_scheduler.py runs.
InitDispatch ==
  FlowIdle /\ ScheduleIdle /\ SearchIdle /\ SaveIdle /\ ContactIdle /\ DispatchInit({1})

SpecDispatch == InitDispatch /\ [][NextDispatch]_vars

\* Two dispatcher workers on the same table.
InitDispatch2 ==
  FlowIdle /\ ScheduleIdle /\ SearchIdle /\ SaveIdle /\ ContactIdle /\ DispatchInit(Workers)

SpecDispatch2 == InitDispatch2 /\ [][NextDispatch]_vars

\* ------------------------------------------- get_next_sf_business_hour
\* Instants are minutes since 00:00 UTC of day 0.  America/Los_Angeles is on
\* PDT (UTC-7) until the clocks go back at 02:00 PDT of day 2, then on PST
\* (UTC-8).
MaxInstant == 380

start_hour == 9

end_hour == 13

Day == 24 * 60

\* The instants the function is called at: every quarter of an hour.
Instants == {8 * 60 + 15 * k : k \in 0..MaxInstant}

\* 02:00 PDT of day 2, as a UTC instant.
FallBack == 2 * Day + 9 * 60

\* The UTC offset pytz attaches when an instant is converted to Los Angeles time.
UtcOffset(t) == IF t < FallBack THEN 0 - 7 * 60 ELSE 0 - 8 * 60

\* The wall-clock reading (minute of the day) of an instant in Los Angeles.
LocalMinute(t) == (t + UtcOffset(t)) % Day

\* The calendar day of an instant on the Los Angeles wall clock.
LocalDay(t) == (t + UtcOffset(t)) \div Day

\* random.randint(0, 120) and random.randint(30, 60).
BeforeDraws == 0..120

\* A push that may be shorter than 30 minutes.
DuringDrawsFromZero == 0..60

DuringDraws == 30..60

\* Lines 27-57.  sf_time is the wall clock with the offset of `now`; replace()
\* and + timedelta keep that offset, and astimezone(pytz.utc) subtracts it.
get_next_sf_business_hour(t, before, during) ==
  LET off == UtcOffset(t)
      sf_time == t + off
      hour == (sf_time % Day) \div 60
      today_start == sf_time - (sf_time % Day) + start_hour * 60
      pushed == sf_time + during
      scheduled_time ==
        IF hour < start_hour THEN today_start + before
        ELSE IF hour < end_hour
             THEN IF (pushed % Day) \div 60 >= end_hour THEN today_start + Day ELSE pushed
        ELSE today_start + Day
  IN scheduled_time - off

InitSchedule ==
  /\ FlowIdle /\ DispatchIdle /\ SearchIdle /\ SaveIdle /\ ContactIdle
  /\ sch_now \in Instants
  /\ sch_out = NoTime
  /\ sch_before = NoTime
  /\ sch_during = NoTime

\* One call, with the draws random.randint makes.
ScheduleCall ==
  /\ sch_out = NoTime
  /\ \E before \in BeforeDraws, during \in DuringDraws :
       /\ sch_out' = get_next_sf_business_hour(sch_now, before, during)
       /\ sch_before' = before
       /\ sch_during' = during
  /\ UNCHANGED sch_now
  /\ UNCHANGED nonScheduleVars

NextSchedule == ScheduleCall

SpecSchedule == InitSchedule /\ [][NextSchedule]_vars

\* ----------------------------------------------- execute_google_search
MaxDorks == 2
MaxResults == 2
MaxLimit == 2

\* The links of the organic results: two job listings, and a page that is not
\* a job listing.
Links == {"workatastartup.com/jobs/1", "workatastartup.com/jobs/2",
          "workatastartup.com/companies/acme"}

\* Line 98: 'workatastartup.com/jobs/' in url.
IsJobUrl(url) == url \in {"workatastartup.com/jobs/1", "workatastartup.com/jobs/2"}

\* The provider call of one dork raised (requests.get, raise_for_status, json).
ProviderError == <<"error">>

\* What the provider can answer to one dork.
Responses == SeqsUpTo(Links, MaxResults) \cup {ProviderError}

\* A filter that does not look for the URL in job_urls.
AddUrlNoDedup(urls, url, lim) ==
  IF Len(urls) < lim /\ IsJobUrl(url) THEN Append(urls, url) ELSE urls

\* Lines 95-103, one organic result: a job URL not yet in job_urls is
\* appended; after the append that reaches limit the inner loop breaks, so
\* nothing is appended to a full list.
AddUrl(urls, url, lim) ==
  IF Len(urls) < lim /\ IsJobUrl(url) /\ url \notin Range(urls)
  THEN Append(urls, url)
  ELSE urls

\* Lines 94-103: the inner loop over organic_results.
RECURSIVE ScanResults(_, _, _)
ScanResults(urls, results, lim) ==
  IF results = <<>> THEN urls
  ELSE ScanResults(AddUrl(urls, Head(results), lim), Tail(results), lim)

InitSearch ==
  /\ FlowIdle /\ DispatchIdle /\ ScheduleIdle /\ SaveIdle /\ ContactIdle
  /\ responses \in {r \in SeqsUpTo(Responses, MaxDorks) : r # <<>>}
  /\ limit \in 1..MaxLimit
  /\ dork_k = 1
  /\ found_urls = <<>>
  /\ queried = <<>>
  /\ search_ret = <<"running">>

\* The function has not returned.
Searching == search_ret = <<"running">>

\* Lines 72-74: the loop ends when the dorks are used up or job_urls is full.
LoopOver == dork_k > Len(responses) \/ Len(found_urls) >= limit

\* Lines 72-113, one dork: the provider is called; its job URLs are collected,
\* or its error is logged and the loop goes on.
SearchDork ==
  /\ Searching
  /\ ~LoopOver
  /\ queried' = Append(queried, dork_k)
  /\ found_urls' = IF responses[dork_k] = ProviderError THEN found_urls
                   ELSE ScanResults(found_urls, responses[dork_k], limit)
  /\ dork_k' = dork_k + 1
  /\ UNCHANGED <<responses, limit, search_ret>>
  /\ UNCHANGED nonSearchVars

\* Line 116: return job_urls[:limit].
SearchReturn ==
  /\ Searching
  /\ LoopOver
  /\ search_ret' = SubSeq(found_urls, 1, IF Len(found_urls) < limit THEN Len(found_urls) ELSE limit)
  /\ UNCHANGED <<responses, limit, dork_k, found_urls, queried>>
  /\ UNCHANGED nonSearchVars

NextSearch == SearchDork \/ SearchReturn

SpecSearch == InitSearch /\ [][NextSearch]_vars

\* ---------------------------------------------------------------- claims
InRun == pc \in {"parse", "plan", "search", "collect", "summarise", "run_done"}

\* The stages whose exception reaches the except block of run_founder_flow.
StageErrors == {"job", "parser", "planner", "executor", "results"}

\* The loop over prioritized_urls has ended.
LoopEnded ==
  /\ pc \in {"summarise", "run_done"}
  /\ "CollectingLeads" \in Range(issued)

\* The lead rows that carry the job id of the running invocation.
PersistedLeads == {r \in DOMAIN leadsTbl : leadsTbl[r].job_id = job_id}

\* C1: in CollectingLeads every URL of prioritized_urls is handed to the Lead
\* Collector whatever happened on the URLs before it (the collector raising,
\* save_lead or update_lead_status failing), and when no stage outside the
\* loop raised the run ends NoLeads or Complete and never writes Failed.
C1_PerUrlFailureContained ==
  /\ pc = "collect" => calls = SubSeq(PrioritizedUrls(job_urls), 1, i - 1)
  /\ LoopEnded =>
       /\ calls = PrioritizedUrls(job_urls)
       /\ raised \cap StageErrors = {} =>
            /\ result.status \in {"NoLeads", "Complete"}
            /\ "Failed" \notin Range(issued)

\* C1 witness: two URLs were handed to the collector, one of them failed, the
\* other gave a lead, and the run returned Complete.
C1_Witness ==
  /\ pc = "run_done"
  /\ result.status = "Complete"
  /\ Len(calls) = 2
  /\ leads = 1

\* The statuses send_emails_for_job writes.
SendSequence == {"SendingEmails", "NoEmailsToSend", "EmailsComplete", "EmailFailed"}

\* C2: once a job's persisted status is Failed, NoResults or NoLeads no write
\* changes it, and a job persisted as Complete is only ever followed by the
\* statuses of the SendingEmails sequence, never by Failed.
C2_TerminalStatusIsFinal ==
  [][\A j \in DOMAIN jobs :
       /\ jobs[j].status \in {"Failed", "NoResults", "NoLeads"}
            => jobs'[j].status = jobs[j].status
       /\ jobs[j].status = "Complete"
            => jobs'[j].status \in {"Complete"} \cup SendSequence]_vars

\* The transition graph of one run_founder_flow invocation.
StatusGraph ==
  {<<"Pending", "Parsing">>, <<"Parsing", "GeneratingPlan">>,
   <<"GeneratingPlan", "Searching">>, <<"Searching", "NoResults">>,
   <<"Searching", "CollectingLeads">>, <<"CollectingLeads", "NoLeads">>,
   <<"CollectingLeads", "Complete">>}
    \cup {<<st, "Failed">> : st \in JobStatuses \ {"Failed"}}

\* The status each stage runs under.
StageStatus ==
  [parse |-> "Parsing", plan |-> "GeneratingPlan", search |-> "Searching",
   collect |-> "CollectingLeads", summarise |-> "Complete"]

\* C3: the job statuses one run_founder_flow invocation writes, in the order
\* it writes them, are a path of the graph from Pending; the status of a stage
\* is written before the stage's collaborator is invoked; and the status the
\* store holds for the job is one the run wrote.
C3_StatusPath ==
  InRun =>
    /\ issued # <<>> => issued[1] = "Pending"
    /\ \A k \in 1..(Len(issued) - 1) : <<issued[k], issued[k + 1]>> \in StatusGraph
    /\ pc \in DOMAIN StageStatus => Last(issued) = StageStatus[pc]
    /\ job_id # NoId => jobs[job_id].status \in Range(issued)

\* C3 witness: a run went through every stage and the store holds Complete.
C3_Witness ==
  /\ pc = "run_done"
  /\ issued = <<"Pending", "Parsing", "GeneratingPlan", "Searching",
                "CollectingLeads", "Complete">>
  /\ job_id # NoId
  /\ jobs[job_id].status = "Complete"

\* C4: whenever an exception was raised in a stage of the run (job creation,
\* parser, planner, executor, result processing) the returned result has
\* status Failed and an error text, and Failed was written for the job (when
\* there is a job id to write it to).
C4_ExceptionEndsFailed ==
  (pc = "run_done" /\ raised # {}) =>
    /\ result.status = "Failed"
    /\ result.error # None
    /\ job_id # NoId => "Failed" \in Range(issued)

\* C5: after the loop a run that has a job row ends NoLeads exactly when no
\* Lead row was persisted for the job, and Complete only when at least one was.
C5_NoLeadsIffNonePersisted ==
  (LoopEnded /\ job_id # NoId /\ {"NoLeads", "Complete"} \cap Range(issued) # {}) =>
    ("NoLeads" \in Range(issued) <=> PersistedLeads = {})

\* The Search Executor returned, and returned no URL.
SearchReturnedNothing ==
  /\ pc = "run_done"
  /\ "Searching" \in Range(issued)
  /\ "executor" \notin raised
  /\ job_urls = <<>>

\* C6: when the Search Executor returns zero URLs the run returns NoResults,
\* NoResults is the last status written (and what the store holds unless the
\* store refused a write), the Lead Collector was never invoked, no Lead row
\* belongs to the job, and neither CollectingLeads nor Failed was written.
C6_ZeroUrlsEndNoResults ==
  SearchReturnedNothing =>
    /\ result.status = "NoResults"
    /\ Last(issued) = "NoResults"
    /\ calls = <<>>
    /\ PersistedLeads = {}
    /\ {"CollectingLeads", "Failed"} \cap Range(issued) = {}
    /\ job_id # NoId =>
         jobs[job_id].status \in Range(issued) \ {"CollectingLeads", "Failed"}

\* C6 witness: a run whose search found nothing returned NoResults and the
\* store holds NoResults for its job.
C6_Witness ==
  /\ SearchReturnedNothing
  /\ result.status = "NoResults"
  /\ job_id # NoId
  /\ jobs[job_id].status = "NoResults"

\* C7: no two persisted Lead rows carry the same non-empty company_name.
C7_OneRowPerCompanyName ==
  \A r1, r2 \in DOMAIN leadsTbl :
    (r1 # r2 /\ leadsTbl[r1].company_name # None)
      => leadsTbl[r1].company_name # leadsTbl[r2].company_name

\* Two lead rows are the same company: they share a company_name or a company_url.
SameCompany(a, b) ==
  \/ a.company_name # None /\ a.company_name = b.company_name
  \/ a.company_url # None /\ a.company_url = b.company_url

\* C8: no two persisted Lead rows refer to the same company.
C8_OneRowPerCompany ==
  \A r1, r2 \in DOMAIN leadsTbl :
    r1 # r2 => ~SameCompany(leadsTbl[r1], leadsTbl[r2])

\* C9: among the URLs handed to the Lead Collector no job-listing URL comes
\* before a company-page URL, a job-listing URL is handed over only after every
\* company-page URL of the search result, and two URLs of the same group are
\* handed over in the order the search returned them.
C9_CompanyPagesFirst ==
  InRun =>
    \A b \in DOMAIN calls :
      /\ \A a \in 1..(b - 1) :
           /\ ~(job_urls[calls[a]] = "job" /\ job_urls[calls[b]] = "company")
           /\ job_urls[calls[a]] = job_urls[calls[b]] => calls[a] < calls[b]
      /\ job_urls[calls[b]] = "job" =>
           \A u \in DOMAIN job_urls :
             job_urls[u] = "company" => \E a \in 1..(b - 1) : calls[a] = u

\* C9 witness: the search returned a job listing and then a company page; the
\* company page was handed to the collector first.
C9_Witness ==
  /\ InRun
  /\ job_urls = <<"job", "company">>
  /\ calls = <<2, 1>>

\* The job has no lead with status ReadyToSend.
NoReadyLead(tbl, id) ==
  \A r \in DOMAIN tbl : tbl[r].job_id = id => tbl[r].status # "ReadyToSend"

\* C10: send_emails_for_job writes SendingEmails first; when the job has no
\* lead with status ReadyToSend it then writes NoEmailsToSend and returns
\* status NoEmailsToSend with emails_sent 0, no send attempted and no lead
\* row touched.
C10_NoReadyLeadEndsNoEmailsToSend ==
  [][/\ (Free /\ pc' = "fetch") =>
          /\ issued' = <<"SendingEmails">>
          /\ jobs'[job_id'].status \in {"SendingEmails", jobs[job_id'].status}
     /\ (pc = "fetch" /\ NoReadyLead(leadsTbl, job_id)) =>
          /\ pc' = "send_done"
          /\ result'.status = "NoEmailsToSend"
          /\ emails_sent' = 0
          /\ issued' = <<"SendingEmails", "NoEmailsToSend">>
          /\ jobs'[job_id].status \in {"NoEmailsToSend", jobs[job_id].status}
          /\ sendCalls' = <<>>
          /\ leadsTbl' = leadsTbl]_vars

\* C10 witness: the run's job has leads, all EmailNotFound; send_emails_for_job
\* returned NoEmailsToSend and the store holds NoEmailsToSend.
C10_Witness ==
  /\ pc = "send_done"
  /\ started
  /\ result.status = "NoEmailsToSend"
  /\ emails_sent = 0
  /\ sendCalls = <<>>
  /\ jobs[job_id].status = "NoEmailsToSend"
  /\ PersistedLeads # {}
  /\ \A r \in PersistedLeads : leadsTbl[r].status = "EmailNotFound"

\* C11: in the loop of send_emails_for_job one step handles the lead at
\* position i and changes no other lead row and no job row; the row becomes
\* EmailSent only when the send counted as sent and EmailFailed only when it
\* did not; the loop goes on to the next lead whatever the outcome; and after
\* the loop every fetched lead was attempted, in order, and the job status
\* written is EmailsComplete, EmailFailed never.
C11_SendFailureTouchesOneLead ==
  [][/\ (pc = "sending" /\ pc' = "sending") =>
          /\ i' = i + 1
          /\ sendCalls' = Append(sendCalls, leads_data[i])
          /\ jobs' = jobs
          /\ \A r \in DOMAIN leadsTbl : r # leads_data[i] => leadsTbl'[r] = leadsTbl[r]
          /\ leadsTbl'[leads_data[i]].status = "EmailSent" => emails_sent' = emails_sent + 1
          /\ leadsTbl'[leads_data[i]].status = "EmailFailed" => emails_sent' = emails_sent
          /\ leadsTbl'[leads_data[i]].status \in {"EmailSent", "EmailFailed", "ReadyToSend"}
     /\ (pc = "sending" /\ pc' # "sending") =>
          /\ i > Len(leads_data)
          /\ sendCalls = leads_data
          /\ pc' = "send_done"
          /\ issued' = <<"SendingEmails", "EmailsComplete">>
          /\ jobs'[job_id].status \in {"EmailsComplete", jobs[job_id].status}
          /\ leadsTbl' = leadsTbl]_vars

\* C11 witness: two leads were fetched, the send to the first failed and its
\* row is EmailFailed, the second was sent and its row is EmailSent, and the
\* job row holds EmailsComplete.
C11_Witness ==
  /\ pc = "send_done"
  /\ Len(leads_data) = 2
  /\ sendCalls = leads_data
  /\ leadsTbl[leads_data[1]].status = "EmailFailed"
  /\ leadsTbl[leads_data[2]].status = "EmailSent"
  /\ emails_sent = 1
  /\ jobs[job_id].status = "EmailsComplete"

\* The rows a poll started now would fetch.
Eligible(r) == \E k \in DOMAIN DueEmails(emails, now) : DueEmails(emails, now)[k] = r

\* The row a worker is about to send.
AtHand(w) == batch[w][pos[w]].id

\* C12: an email whose delivery failed and whose retry count is below 3 is
\* fetched by a poll once now >= next_retry (so a later poll attempts it
\* again), and no worker attempts a row before its next_retry.
C12_FailedEmailRetriedAtNextRetry ==
  /\ \A r \in DOMAIN emails :
       (/\ failures[r] > 0
        /\ emails[r].status # "Sent"
        /\ emails[r].retries \in 1..2
        /\ emails[r].next_retry # NoTime
        /\ now >= emails[r].next_retry) => Eligible(r)
  /\ \A w \in workers :
       (dpc[w] = "loop" /\ emails[AtHand(w)].next_retry # NoTime)
         => now >= emails[AtHand(w)].next_retry

\* C13: once the provider refused the message of one email three times in a
\* row (no delivery in between), the row is Failed with 3 retries recorded and
\* next_retry null.
C13_ThirdFailureIsPermanent ==
  \A r \in DOMAIN emails :
    (failures[r] >= 3 /\ delivered[r] = 0) =>
      /\ emails[r].status = "Failed"
      /\ emails[r].retries = 3
      /\ emails[r].next_retry = NoTime

\* Row r is Scheduled and due at time t.
ScheduledAndDue(r, t) ==
  /\ emails[r].status = "Scheduled"
  /\ emails[r].scheduled_at # NoTime
  /\ emails[r].scheduled_at <= t

\* Row r is sent or modified by the step.
Touches(r) ==
  \/ emails'[r] # emails[r]
  \/ delivered'[r] # delivered[r]
  \/ failures'[r] # failures[r]

\* C14: every row a poll fetches is Scheduled with scheduled_at <= now when
\* the poll starts, the poll's start touches no row,
\* and every step of the poll sends or modifies only the fetched row at hand:
\* a row that was Sent, Failed or not yet due when the poll started is neither
\* sent nor modified by it.
C14_OnlyDueScheduledRowsAttempted ==
  [][\A w \in workers :
       /\ (dpc[w] = "idle" /\ polls' # polls) =>
            /\ \A k \in DOMAIN batch'[w] : ScheduledAndDue(batch'[w][k].id, now)
            /\ \A r \in DOMAIN emails : ~Touches(r)
       /\ (dpc[w] = "loop") =>
            /\ \A r \in DOMAIN emails : Touches(r) => r = AtHand(w)
            /\ batch'[w] = batch[w]
            /\ touched'[w] \subseteq {batch[w][k].id : k \in DOMAIN batch[w]}]_vars

\* C14 witness: a poll has ended that sent one row, which is now Sent, and left
\* alone a row that is scheduled for later.
C14_Witness ==
  /\ workers = {1}
  /\ dpc[1] = "idle"
  /\ \E r1, r2 \in DOMAIN emails :
       /\ touched[1] = {r1}
       /\ delivered[r1] = 1
       /\ emails[r1].status = "Sent"
       /\ emails[r2].status = "Scheduled"
       /\ emails[r2].scheduled_at > now
       /\ delivered[r2] = 0

\* C15: a row whose message the provider accepted is Sent with sent_at stamped
\* when the step that sent it is over; it is never left Scheduled or marked
\* Failed.
C15_DeliveredRowIsSent ==
  \A r \in DOMAIN emails :
    delivered[r] > 0 => (emails[r].status = "Sent" /\ emails[r].sent_at # NoTime)

\* C19: with two dispatcher workers, a worker hands a row's message to the
\* provider, and marks the row Sent, only while the row is still Scheduled, so
\* that no message is delivered by both workers.
C19_SentOnlyIfStillScheduled ==
  [][\A r \in DOMAIN emails :
       (\/ delivered'[r] # delivered[r]
        \/ emails'[r].status = "Sent" /\ emails'[r] # emails[r])
         => emails[r].status = "Scheduled"]_vars

\* C16: the time get_next_sf_business_hour returns, read on the Los Angeles
\* wall clock, is between 09:00 and 13:00.
C16_ScheduledInsideWindow ==
  sch_out # NoTime =>
    /\ LocalMinute(sch_out) >= start_hour * 60
    /\ LocalMinute(sch_out) <= end_hour * 60

\* The links the provider returned for the dorks before dork k, in order.
RECURSIVE LinksBefore(_)
LinksBefore(k) ==
  IF k <= 1 THEN <<>>
  ELSE LinksBefore(k - 1)
         \o (IF responses[k - 1] = ProviderError THEN <<>> ELSE responses[k - 1])

\* The job-listing links of a list, each at its first occurrence.
FirstSeenJobUrls(links) ==
  SelectSeq([k \in DOMAIN links |-> k],
            LAMBDA k : /\ IsJobUrl(links[k])
                       /\ \A j \in 1..(k - 1) : links[j] # links[k])

\* C17: execute_google_search returns at most limit URLs, none twice, each a
\* job-listing URL, in the order the provider first returned them across the
\* dorks (the first limit of them); the dorks are queried in order, and no dork
\* is queried once limit job URLs were already returned by the dorks before it.
C17_SearchResultBounded ==
  /\ \A q \in DOMAIN queried :
       /\ queried[q] = q
       /\ Len(FirstSeenJobUrls(LinksBefore(q))) < limit
  /\ ~Searching =>
       LET all == LinksBefore(Len(responses) + 1)
           first == FirstSeenJobUrls(all)
       IN /\ Len(search_ret) <= limit
          /\ \A a, b \in DOMAIN search_ret : a # b => search_ret[a] # search_ret[b]
          /\ \A a \in DOMAIN search_ret : IsJobUrl(search_ret[a])
          /\ Len(search_ret) = (IF Len(first) < limit THEN Len(first) ELSE limit)
          /\ \A a \in DOMAIN search_ret : search_ret[a] = all[first[a]]

\* C17 witness: the first dork returned a company page and job 2, the second
\* job 2 again and job 1; with limit 2 the two job URLs came back once each,
\* in first-seen order.
C17_Witness ==
  /\ ~Searching
  /\ limit = 2
  /\ Len(responses) = 2
  /\ responses[1] = <<"workatastartup.com/companies/acme", "workatastartup.com/jobs/2">>
  /\ responses[2] = <<"workatastartup.com/jobs/2", "workatastartup.com/jobs/1">>
  /\ search_ret = <<"workatastartup.com/jobs/2", "workatastartup.com/jobs/1">>

\* C18: every persisted Lead row has a company name or a company URL.
C18_LeadRowHasCompany ==
  \A r \in DOMAIN leadsTbl :
    leadsTbl[r].company_name # None \/ leadsTbl[r].company_url # None

\* ------------------------------------------- save_lead, two concurrent workers
\* Two workers call save_lead (supabase.py:241-281) on the same, initially empty
\* leads table.  save_lead is not atomic: the query of check_lead_exists and
\* the insert are two round trips to the store, and the other worker's round
\* trips can fall between them.
SaveWorkers == {1, 2}

\* The job_id argument of both calls.
SaveJobId == 1

\* The company a lead is looked up by in check_lead_exists: company_name when
\* given, else company_url (lines 215-218).
CompanyKey(lead) ==
  IF lead.company_name # None THEN lead.company_name ELSE lead.company_url

\* The pairs of leads the two workers save: leads of one company, each with
\* anything in the fields the lookup does not read.
SameCompanyPairs ==
  {p \in [SaveWorkers -> Leads] :
     /\ CompanyKey(p[1]) # None
     /\ (p[1].company_name = None) = (p[2].company_name = None)
     /\ CompanyKey(p[1]) = CompanyKey(p[2])}

\* The orchestrator's variables other than the leads table.
flowVarsButLeads ==
  <<jobs, pc, job_id, result, job_urls, i, leads, leads_data, emails_sent,
    issued, calls, sendCalls, raised, started, sends>>

nonSaveVars == <<flowVarsButLeads, dispatchVars, scheduleVars, searchVars, contactVars>>

InitSaveLead ==
  /\ FlowIdle /\ DispatchIdle /\ ScheduleIdle /\ SearchIdle /\ ContactIdle
  /\ sl_lead \in SameCompanyPairs
  /\ sl_pc = [w \in SaveWorkers |-> "check"]
  /\ sl_exists = [w \in SaveWorkers |-> FALSE]
  /\ sl_served = [w \in SaveWorkers |-> FALSE]

\* Lines 254-257: the existence check; a duplicate returns None at once.  The
\* query raising makes check_lead_exists return False (line 239).
SaveCheck(w) ==
  /\ sl_pc[w] = "check"
  /\ \E chkOk \in BOOLEAN :
       LET dup == IsDuplicate(leadsTbl, sl_lead[w], chkOk)
       IN /\ sl_exists' = [sl_exists EXCEPT ![w] = dup]
          /\ sl_served' = [sl_served EXCEPT ![w] = chkOk]
          /\ sl_pc' = [sl_pc EXCEPT ![w] = IF dup THEN "done" ELSE "insert"]
  /\ UNCHANGED <<leadsTbl, sl_lead, nonSaveVars>>

\* Lines 259-281: the insert; the store refusing it is caught and None returned.
SaveInsert(w) ==
  /\ sl_pc[w] = "insert"
  /\ \E insOk \in BOOLEAN :
       leadsTbl' = IF insOk THEN Append(leadsTbl, LeadRow(sl_lead[w], SaveJobId))
                   ELSE leadsTbl
  /\ sl_pc' = [sl_pc EXCEPT ![w] = "done"]
  /\ UNCHANGED <<sl_lead, sl_exists, sl_served, nonSaveVars>>

NextSaveLead == \E w \in SaveWorkers : SaveCheck(w) \/ SaveInsert(w)

SpecSaveLead == InitSaveLead /\ [][NextSaveLead]_vars

\* The rows of the leads table that check_lead_exists would find for a lead.
RowsOfCompany(lead) ==
  {r \in DOMAIN leadsTbl :
     IF lead.company_name # None
     THEN leadsTbl[r].company_name = lead.company_name
     ELSE leadsTbl[r].company_url = lead.company_url}

\* C20: with two workers in save_lead for leads of the same company, and both
\* existence queries answered by the store, at most one Lead row of that
\* company is persisted, in every interleaving of checks and inserts.
C20_AtMostOneRowPerCompany ==
  (\A w \in SaveWorkers : sl_pc[w] # "check" => sl_served[w])
    => \A w \in SaveWorkers : Cardinality(RowsOfCompany(sl_lead[w])) <= 1

\* The rows response.data of worker w's current poll holds.
BatchIds(w) == {batch[w][k].id : k \in DOMAIN batch[w]}

\* C21: within one poll, a failure while handling one due email (a delivery
\* error, or a failure to record its outcome) does not keep the remaining
\* fetched emails from being attempted: when the loop of a poll is left, every
\* fetched row was attempted.
C21_PollAttemptsEveryFetchedEmail ==
  [][\A w \in workers :
       dpc[w] = "loop" /\ dpc'[w] = "idle" => BatchIds(w) \subseteq touched'[w]]_vars

LocalHour(t) == LocalMinute(t) \div 60

\* C23: called inside the 09:00-13:00 window with a drawn push that does not
\* reach 13:00, get_next_sf_business_hour returns now + the drawn push, which
\* is on the same local day and between now + 30 and now + 60 minutes; for
\* now = 10:00 the result is within [10:30, 11:00].
C23_InsideWindowPush ==
  (/\ sch_out # NoTime
   /\ LocalHour(sch_now) >= start_hour
   /\ LocalHour(sch_now) < end_hour
   /\ LocalMinute(sch_now) + sch_during < end_hour * 60)
    => /\ sch_out = sch_now + sch_during
       /\ sch_out >= sch_now + 30
       /\ sch_out <= sch_now + 60
       /\ LocalDay(sch_out) = LocalDay(sch_now)
       /\ LocalMinute(sch_now) = 10 * 60
            => LocalMinute(sch_out) >= 10 * 60 + 30 /\ LocalMinute(sch_out) <= 11 * 60

\* C23 witness: called at 10:00 local with a push of 45 minutes, the result is
\* 10:45 of the same day.
C23_Witness ==
  /\ LocalMinute(sch_now) = 10 * 60
  /\ sch_during = 45
  /\ sch_out = sch_now + 45
  /\ LocalMinute(sch_out) = 10 * 60 + 45

\* C24: called past 13:00 local, or inside the window with a push that would
\* cross 13:00, get_next_sf_business_hour schedules on the next calendar day
\* at 09:00 plus the jitter drawn from 0-120 minutes (read away from a clock
\* change between the call and the result).
C24_NextDayHasJitter ==
  (/\ sch_out # NoTime
   /\ UtcOffset(sch_out) = UtcOffset(sch_now)
   /\ \/ LocalHour(sch_now) >= end_hour
      \/ /\ LocalHour(sch_now) >= start_hour
         /\ LocalMinute(sch_now) + sch_during >= end_hour * 60)
    => /\ LocalDay(sch_out) = LocalDay(sch_now) + 1
       /\ LocalMinute(sch_out) = start_hour * 60 + sch_before

\* ------------------------------------------------- find_contact_linkedin
\* tools/scraping.py:363-404.  A title is a list of words, "" being the empty
\* list (also what founder.get('title', '') gives when the key is missing).
MaxFounders == 3

TitleWords == {"CEO", "Chief", "Technology", "Co-Founder", "Founder", "Engineer"}

\* str.lower() on one word.
Lower(word) ==
  CASE word = "CEO" -> "ceo"
    [] word = "Chief" -> "chief"
    [] word = "Technology" -> "technology"
    [] word = "Co-Founder" -> "co-founder"
    [] word = "Founder" -> "founder"
    [] word = "Engineer" -> "engineer"

\* needle in title, for the needles of lines 389 and 395 and a lowered title.
Contains(needle, title) ==
  \E k \in DOMAIN title :
    \/ title[k] = needle
    \/ needle = "founder" /\ title[k] = "co-founder"

LowerTitle(title) == [k \in DOMAIN title |-> Lower(title[k])]

\* The titles a candidate comes with.
Titles ==
  {<<>>, <<"CEO">>, <<"Chief", "Technology">>, <<"Co-Founder">>,
   <<"Founder", "CEO">>, <<"Engineer">>}

ProfileLinks == {"in/a", "in/b"}

\* One founder dict: title and linkedin_url, the latter absent (None) or a link.
Candidates == [title : Titles, linkedin_url : ProfileLinks \cup {None}]

\* Line 389: title and ('ceo' in title or 'chief' in title), title lowered.
IsChief(founder) ==
  LET title == LowerTitle(founder.title)
  IN title # <<>> /\ (Contains("ceo", title) \/ Contains("chief", title))

\* Line 395: title and 'founder' in title, title lowered.
IsFounder(founder) ==
  LET title == LowerTitle(founder.title)
  IN title # <<>> /\ Contains("founder", title)

\* Line 400: founder.get('linkedin_url') is truthy.
HasLink(founder) == founder.linkedin_url # None

\* One for loop with `if test: return founder.get('linkedin_url')`, given per
\* founder whether the test passes: the index of the founder it returns at, 0
\* when the loop falls through.
RECURSIVE LoopHit(_, _)
LoopHit(passes, k) ==
  IF k > Len(passes) THEN 0
  ELSE IF passes[k] THEN k
  ELSE LoopHit(passes, k + 1)

\* The three tests, per founder of the list.
ChiefPasses(founders) == [k \in DOMAIN founders |-> IsChief(founders[k])]

FounderPasses(founders) == [k \in DOMAIN founders |-> IsFounder(founders[k])]

LinkPasses(founders) == [k \in DOMAIN founders |-> HasLink(founders[k])]

\* The loops in the order founder title, then CEO or chief.
find_contact_linkedin_founder_first(founders) ==
  IF founders = <<>> THEN None
  ELSE IF LoopHit(FounderPasses(founders), 1) # 0
       THEN founders[LoopHit(FounderPasses(founders), 1)].linkedin_url
  ELSE IF LoopHit(ChiefPasses(founders), 1) # 0
       THEN founders[LoopHit(ChiefPasses(founders), 1)].linkedin_url
  ELSE IF LoopHit(LinkPasses(founders), 1) # 0
       THEN founders[LoopHit(LinkPasses(founders), 1)].linkedin_url
  ELSE None

\* Lines 382-404.
find_contact_linkedin(founders) ==
  IF founders = <<>> THEN None
  ELSE IF LoopHit(ChiefPasses(founders), 1) # 0
       THEN founders[LoopHit(ChiefPasses(founders), 1)].linkedin_url
  ELSE IF LoopHit(FounderPasses(founders), 1) # 0
       THEN founders[LoopHit(FounderPasses(founders), 1)].linkedin_url
  ELSE IF LoopHit(LinkPasses(founders), 1) # 0
       THEN founders[LoopHit(LinkPasses(founders), 1)].linkedin_url
  ELSE None

InitContact ==
  /\ FlowIdle /\ DispatchIdle /\ ScheduleIdle /\ SearchIdle /\ SaveIdle
  /\ fc_founders \in SeqsUpTo(Candidates, MaxFounders)
  /\ fc_ret = "running"

\* One call.
FindContact ==
  /\ fc_ret = "running"
  /\ fc_ret' = find_contact_linkedin(fc_founders)
  /\ UNCHANGED fc_founders
  /\ UNCHANGED nonContactVars

NextContact == FindContact

SpecContact == InitContact /\ [][NextContact]_vars

\* The position of the candidate the ranking selects: the first with a CEO or
\* chief title, else the first with a founder title, else the first with a
\* profile link; 0 when no candidate qualifies.
Ranked(founders) ==
  LET chiefs == {k \in DOMAIN founders : IsChief(founders[k])}
      cofounders == {k \in DOMAIN founders : IsFounder(founders[k])}
      linked == {k \in DOMAIN founders : HasLink(founders[k])}
      First(S) == CHOOSE k \in S : \A m \in S : k <= m
  IN IF chiefs # {} THEN First(chiefs)
     ELSE IF cofounders # {} THEN First(cofounders)
     ELSE IF linked # {} THEN First(linked)
     ELSE 0

C30_LinkWheneverSomeCandidateHasOne ==
  (/\ fc_ret # "running"
   /\ \E k \in DOMAIN fc_founders : HasLink(fc_founders[k]))
    => fc_ret # None

\* C26: when run_founder_flow or send_emails_for_job returns, the status of
\* the returned result equals the job's persisted status and is one of the
\* enumerated JobRun status strings.
C26_ReturnedStatusIsPersistedStatus ==
  pc \in {"run_done", "send_done"} /\ job_id \in DOMAIN jobs =>
    /\ result.status = jobs[job_id].status
    /\ result.status \in JobStatuses

\* C27: every Lead row references the id of a persisted JobRun row; when the
\* initial job insert failed, no URL is handed to the collector and no Lead is
\* persisted by that run.
C27_LeadsReferencePersistedJob ==
  /\ \A r \in DOMAIN leadsTbl : leadsTbl[r].job_id \in DOMAIN jobs
  /\ InRun /\ "job_insert" \in raised => calls = <<>>

\* C28: once the loop of CollectingLeads has ended (in a run whose job row was
\* created), every URL the search returned was handed to the Lead Collector exactly once, and the number of
\* collected leads does not exceed the number of URLs.
C28_EveryUrlCollectedOnce ==
  LoopEnded /\ job_id # NoId =>
    /\ \A u \in DOMAIN job_urls : Cardinality({a \in DOMAIN calls : calls[a] = u}) = 1
    /\ leads <= Len(job_urls)

====
